---- MODULE Spec2Model ----
(***************************************************************************)
(* Model of textacy.datasets.wikimedia: the Wikimedia dataset class that   *)
(* streams normalized records out of a CirrusSearch dump (Elasticsearch    *)
(* bulk-insert format: index line, source line, index line, ...), and its  *)
(* filtered query generators texts() and records().                        *)
(*                                                                         *)
(* Python strings are sequences of one-character strings, so that          *)
(* startswith, strip, slicing and len are computed as Python computes      *)
(* them.  None is the tuple <<"None">>, whose only element is not a        *)
(* character, so it differs from every string (including the empty one).   *)
(***************************************************************************)
EXTENDS Integers, Sequences, FiniteSets, TLC

VARIABLES
    project,     \* self.project: "wiki" for Wikipedia, "wikinews" for Wikinews
    lang,        \* self.lang
    namespace,   \* self.namespace
    fileExists,  \* self._filepath.is_file()
    dump,        \* the parsed lines of the dump file (once it is downloaded)
    gens         \* the generator objects made by iter(ds), ds.texts(), ds.records():
                 \* status, call arguments, lines read, items yielded, exception

vars == <<project, lang, namespace, fileExists, dump, gens>>

None == <<"None">>

(* ---------------- string literals of wikimedia.py ---------------- *)
s_All_stub_articles == <<"A", "l", "l", " ", "s", "t", "u", "b", " ", "a", "r", "t", "i", "c", "l", "e", "s">>
s_Disambiguation_pages == <<"D", "i", "s", "a", "m", "b", "i", "g", "u", "a", "t", "i", "o", "n", " ", "p", "a", "g", "e", "s">>
s_All_ == <<"A", "l", "l", " ">>
s_Wikipedia_ == <<"W", "i", "k", "i", "p", "e", "d", "i", "a", " ">>
s_Article == <<"A", "r", "t", "i", "c", "l", "e">>
s_article == <<"a", "r", "t", "i", "c", "l", "e">>
s_Pages == <<"P", "a", "g", "e", "s">>
s_pages == <<"p", "a", "g", "e", "s">>
s_Wikipedia_c == <<"W", "i", "k", "i", "p", "e", "d", "i", "a", ":">>
s_Artikelstatus_c_Fertig == <<"A", "r", "t", "i", "k", "e", "l", "s", "t", "a", "t", "u", "s", ":", " ", "F", "e", "r", "t", "i", "g">>
s_Veroffentlicht == <<"V", "e", "r", "ö", "f", "f", "e", "n", "t", "l", "i", "c", "h", "t">>
s_Archived == <<"A", "r", "c", "h", "i", "v", "e", "d">>
s_Published == <<"P", "u", "b", "l", "i", "s", "h", "e", "d">>
s_AutoArchived == <<"A", "u", "t", "o", "A", "r", "c", "h", "i", "v", "e", "d">>
s_No_publish == <<"N", "o", " ", "p", "u", "b", "l", "i", "s", "h">>
s_Archivado == <<"A", "r", "c", "h", "i", "v", "a", "d", "o">>
s_Articulos_publicados == <<"A", "r", "t", "í", "c", "u", "l", "o", "s", " ", "p", "u", "b", "l", "i", "c", "a", "d", "o", "s">>
s_Article_archive == <<"A", "r", "t", "i", "c", "l", "e", " ", "a", "r", "c", "h", "i", "v", "é">>
s_Article_publie == <<"A", "r", "t", "i", "c", "l", "e", " ", "p", "u", "b", "l", "i", "é">>
s_Pubblicati == <<"P", "u", "b", "b", "l", "i", "c", "a", "t", "i">>
s_Gepubliceerd == <<"G", "e", "p", "u", "b", "l", "i", "c", "e", "e", "r", "d">>
s_Arquivado == <<"A", "r", "q", "u", "i", "v", "a", "d", "o">>
s_Publicado == <<"P", "u", "b", "l", "i", "c", "a", "d", "o">>
s_Hilfe_c == <<"H", "i", "l", "f", "e", ":">>
s_Boetheia_c == <<"Β", "ο", "ή", "θ", "ε", "ι", "α", ":">>
s_Help_c == <<"H", "e", "l", "p", ":">>
s_Ayuda_c == <<"A", "y", "u", "d", "a", ":">>
s_Wikipedia_acute_c == <<"W", "i", "k", "i", "p", "é", "d", "i", "a", ":">>
s_Aide_c == <<"A", "i", "d", "e", ":">>
s_Aiuto_c == <<"A", "i", "u", "t", "o", ":">>
s_Ajuda_c == <<"A", "j", "u", "d", "a", ":">>
s_Wikinews_c == <<"W", "i", "k", "i", "n", "e", "w", "s", ":">>
s_Bikinea == <<"Β", "ι", "κ", "ι", "ν", "έ", "α">>
s_Template_c == <<"T", "e", "m", "p", "l", "a", "t", "e", ":">>
s_User_c == <<"U", "s", "e", "r", ":">>
s_Wikinoticias_c == <<"W", "i", "k", "i", "n", "o", "t", "i", "c", "i", "a", "s", ":">>
s_Wikinotizie_c == <<"W", "i", "k", "i", "n", "o", "t", "i", "z", "i", "e", ":">>
s_Wikinieuws_c == <<"W", "i", "k", "i", "n", "i", "e", "u", "w", "s", ":">>
s_Wikinoticias_acute_c == <<"W", "i", "k", "i", "n", "o", "t", "í", "c", "i", "a", "s", ":">>

(* ---------------- Python built-ins used by the code ---------------- *)

\* str.startswith(prefix)
startswith(s, p) == Len(p) <= Len(s) /\ SubSeq(s, 1, Len(p)) = p

\* the characters str.strip() removes that the modelled alphabet contains
Whitespace == {" ", "\n", "\t", "\r"}

RECURSIVE lstrip(_)
lstrip(s) == IF s # <<>> /\ Head(s) \in Whitespace THEN lstrip(Tail(s)) ELSE s

RECURSIVE rstrip(_)
rstrip(s) ==
    IF s # <<>> /\ s[Len(s)] \in Whitespace
    THEN rstrip(SubSeq(s, 1, Len(s) - 1))
    ELSE s

\* str.strip()
strip(s) == rstrip(lstrip(s))

\* truth value of an Optional[str]: None and "" are both false
Truthy(x) == x # None /\ x # <<>>

\* dict.get(key, default)
get(obj, key, default) == IF key \in DOMAIN obj THEN obj[key] ELSE default

\* x in seq
contains(seq, x) == \E i \in 1..Len(seq) : seq[i] = x

\* the percent escapes that occur in the modelled dumps, and what
\* urllib.parse.unquote makes of them
PercentEscapes ==
    (<<"3", "A">> :> ":") @@ (<<"3", "a">> :> ":") @@ (<<"2", "F">> :> "/") @@
    (<<"2", "f">> :> "/") @@ (<<"2", "B">> :> "+") @@ (<<"2", "b">> :> "+") @@
    (<<"2", "0">> :> " ") @@ (<<"2", "5">> :> "%")

RECURSIVE unquote(_)
unquote(s) ==
    IF s = <<>> THEN <<>>
    ELSE IF Head(s) = "%" /\ Len(s) >= 3 /\ <<s[2], s[3]>> \in DOMAIN PercentEscapes
    THEN <<PercentEscapes[<<s[2], s[3]>>]>> \o unquote(SubSeq(s, 4, Len(s)))
    ELSE <<Head(s)>> \o unquote(Tail(s))

\* urllib.parse.unquote_plus(el): "+" becomes a space, then the escapes are decoded
unquote_plus(s) == unquote([i \in 1..Len(s) |-> IF s[i] = "+" THEN " " ELSE s[i]])

(* ---------------- rule tables ---------------- *)

\* re.search(r"^(?:All )?(?:Wikipedia )?(?:[Aa]rticles?|[Pp]ages)", cat)
is_bad_category_en_regex(cat) ==
    \E a \in {<<>>, s_All_}, w \in {<<>>, s_Wikipedia_},
       h \in {s_Article, s_article, s_Pages, s_pages} :
        startswith(cat, a \o w \o h)

_is_bad_category_en(cat) ==
    \/ cat = s_All_stub_articles
    \/ startswith(cat, s_Disambiguation_pages)
    \/ is_bad_category_en_regex(cat)

\* the (project, lang) keys of is_bad_category_funcs
is_bad_category_keys ==
    {<<"wiki", "de">>, <<"wiki", "en">>, <<"wiki", "nl">>,
     <<"wikinews", "de">>, <<"wikinews", "en">>, <<"wikinews", "es">>,
     <<"wikinews", "fr">>, <<"wikinews", "it">>, <<"wikinews", "nl">>,
     <<"wikinews", "pt">>}

\* is_bad_category_funcs[p][l](cat), for <<p, l>> in is_bad_category_keys
is_bad_category_funcs(p, l, cat) ==
    CASE <<p, l>> = <<"wiki", "de">> -> startswith(cat, s_Wikipedia_c)
      [] <<p, l>> = <<"wiki", "en">> -> _is_bad_category_en(cat)
      [] <<p, l>> = <<"wiki", "nl">> -> startswith(cat, s_Wikipedia_c)
      [] <<p, l>> = <<"wikinews", "de">> ->
            cat \in {s_Artikelstatus_c_Fertig, s_Veroffentlicht}
      [] <<p, l>> = <<"wikinews", "en">> ->
            cat \in {s_Archived, s_Published, s_AutoArchived, s_No_publish}
      [] <<p, l>> = <<"wikinews", "es">> ->
            cat \in {s_Archivado, s_Articulos_publicados}
      [] <<p, l>> = <<"wikinews", "fr">> ->
            cat \in {s_Article_archive, s_Article_publie}
      [] <<p, l>> = <<"wikinews", "it">> -> cat \in {s_Pubblicati}
      [] <<p, l>> = <<"wikinews", "nl">> -> cat \in {s_Gepubliceerd}
      [] <<p, l>> = <<"wikinews", "pt">> -> cat \in {s_Arquivado, s_Publicado}

\* _bad_wiki_link_starts.get(p, {}).get(l, tuple())
_bad_wiki_link_starts(p, l) ==
    CASE <<p, l>> = <<"wiki", "de">> -> <<s_Wikipedia_c, s_Hilfe_c>>
      [] <<p, l>> = <<"wiki", "el">> -> <<s_Boetheia_c>>
      [] <<p, l>> = <<"wiki", "en">> -> <<s_Wikipedia_c, s_Help_c>>
      [] <<p, l>> = <<"wiki", "es">> -> <<s_Wikipedia_c, s_Ayuda_c>>
      [] <<p, l>> = <<"wiki", "fr">> -> <<s_Wikipedia_acute_c, s_Aide_c>>
      [] <<p, l>> = <<"wiki", "it">> -> <<s_Wikipedia_c, s_Aiuto_c>>
      [] <<p, l>> = <<"wiki", "nl">> -> <<s_Wikipedia_c>>
      [] <<p, l>> = <<"wiki", "pt">> -> <<s_Wikipedia_acute_c, s_Ajuda_c>>
      [] <<p, l>> = <<"wikinews", "de">> -> <<s_Wikinews_c>>
      [] <<p, l>> = <<"wikinews", "el">> -> <<s_Bikinea>>
      [] <<p, l>> = <<"wikinews", "en">> -> <<s_Wikinews_c, s_Template_c, s_User_c>>
      [] <<p, l>> = <<"wikinews", "es">> -> <<s_Wikinoticias_c>>
      [] <<p, l>> = <<"wikinews", "fr">> -> <<s_Wikinews_c>>
      [] <<p, l>> = <<"wikinews", "it">> -> <<s_Wikinotizie_c>>
      [] <<p, l>> = <<"wikinews", "nl">> -> <<s_Wikinieuws_c>>
      [] <<p, l>> = <<"wikinews", "pt">> -> <<s_Wikinoticias_acute_c>>
      [] OTHER -> <<>>

(* ---------------- record extraction: the body of __iter__'s loop ---------------- *)

\* as reconstruct_text, without the strip() of the remainder
reconstruct_text_unstripped(source) ==
    LET opening_text == get(source, "opening_text", None)
        text == get(source, "text", None)
    IN  IF Truthy(opening_text) /\ Truthy(text) /\ startswith(text, opening_text)
        THEN opening_text \o <<"\n", "\n">>
                 \o SubSeq(text, Len(opening_text) + 1, Len(text))
        ELSE text

\* lines 243-246: split opening text from main body text, if available
reconstruct_text(source) ==
    LET opening_text == get(source, "opening_text", None)
        text == get(source, "text", None)
    IN  IF Truthy(opening_text) /\ Truthy(text) /\ startswith(text, opening_text)
        THEN opening_text \o <<"\n", "\n">>
                 \o strip(SubSeq(text, Len(opening_text) + 1, Len(text)))
        ELSE text

\* lines 233, 248-253
clean_categories(p, l, source) ==
    LET cats == get(source, "category", <<>>)
        keep(cat) == ~is_bad_category_funcs(p, l, cat)
    IN  IF <<p, l>> \in is_bad_category_keys THEN SelectSeq(cats, keep) ELSE cats

\* as clean_wiki_links, with all() in place of any()
clean_wiki_links_all(p, l, source) ==
    LET bad_wl_starts == _bad_wiki_link_starts(p, l)
        keep(wl) == ~\A i \in 1..Len(bad_wl_starts) : startswith(wl, bad_wl_starts[i])
    IN  SelectSeq(get(source, "outgoing_link", <<>>), keep)

\* lines 234-236, 254-258
clean_wiki_links(p, l, source) ==
    LET bad_wl_starts == _bad_wiki_link_starts(p, l)
        keep(wl) == ~\E i \in 1..Len(bad_wl_starts) : startswith(wl, bad_wl_starts[i])
    IN  SelectSeq(get(source, "outgoing_link", <<>>), keep)

\* lines 259-273: the dict yielded for one (index, source) pair
normalized_record(p, l, index, source) ==
    [page_id |-> index.index._id,
     title |-> source.title,
     text |-> reconstruct_text(source),
     headings |-> get(source, "heading", <<>>),
     wiki_links |-> clean_wiki_links(p, l, source),
     ext_links |-> [i \in 1..Len(get(source, "external_link", <<>>)) |->
                       unquote_plus(source.external_link[i])],
     categories |-> clean_categories(p, l, source),
     dt_created |-> get(source, "create_timestamp", None),
     n_incoming_links |-> get(source, "incoming_links", None),
     popularity_score |-> get(source, "popularity_score", None)]

\* as namespace_matches, with a missing namespace taken for the dataset's
namespace_matches_default(ns, source) == get(source, "namespace", ns) = ns

\* line 240: the pair is skipped unless the namespace matches
namespace_matches(ns, source) ==
    "namespace" \in DOMAIN source /\ source.namespace = ns

(* ---------------- query arguments ---------------- *)

\* an argument left at its default None
NoArg == [given |-> FALSE]
IntArg(n) == [given |-> TRUE, int |-> n]
StrArg(s) == [given |-> TRUE, str |-> s]
SetArg(S) == [given |-> TRUE, set |-> S]

\* utils.validate_set_members(vals, (str, bytes)): a single string becomes a
\* one-element set, a set of strings is returned as it is
validate_set_members(arg) == IF "str" \in DOMAIN arg THEN {arg.str} ELSE arg.set

\* the arguments of a plain iteration over the dataset: iter(ds)
IterCall == [kind |-> "iter", category |-> NoArg, wiki_link |-> NoArg,
             min_len |-> NoArg, limit |-> NoArg]

(* ---------------- _get_filters ---------------- *)

\* as min_len_invalid, with the bound off by one (min_len < 0)
min_len_invalid_negative_only(args) == args.min_len.given /\ args.min_len.int < 0

\* line 278: _get_filters raises ValueError
min_len_invalid(args) == args.min_len.given /\ args.min_len.int < 1

\* line 280: len(record.get("text", "")) raises TypeError when the record's
\* "text" key holds None (the key is always present, so the default is unused)
min_len_filter_raises(record) == record.text = None

\* line 280
min_len_filter(record, min_len) == Len(record.text) >= min_len

\* as category_filter, without the membership test
category_filter_nonempty_only(record, category) == record.categories # <<>>

\* lines 286-289
category_filter(record, category) ==
    /\ record.categories # <<>>
    /\ \E ctgry \in category : contains(record.categories, ctgry)

\* lines 296-299
wiki_link_filter(record, wiki_link) ==
    /\ record.wiki_links # <<>>
    /\ \E wl \in wiki_link : contains(record.wiki_links, wl)

\* line 306: all(filter_(record) for filter_ in filters) raises; the min_len
\* filter is the first of the list, so it is evaluated for every record
filters_raise(record, args) ==
    args.min_len.given /\ min_len_filter_raises(record)

\* as filters_pass, with any() in place of all()
filters_pass_any(record, args) ==
    \/ ~(args.min_len.given \/ args.category.given \/ args.wiki_link.given)
    \/ args.min_len.given /\ min_len_filter(record, args.min_len.int)
    \/ args.category.given /\
           category_filter(record, validate_set_members(args.category))
    \/ args.wiki_link.given /\
           wiki_link_filter(record, validate_set_members(args.wiki_link))

\* line 306 (and line 310 when no filter was built)
filters_pass(record, args) ==
    /\ args.min_len.given => min_len_filter(record, args.min_len.int)
    /\ args.category.given =>
           category_filter(record, validate_set_members(args.category))
    /\ args.wiki_link.given =>
           wiki_link_filter(record, validate_set_members(args.wiki_link))

(* ---------------- generators ---------------- *)

\* lines 238-273 driven by lines 303-310: resume the loops from read position
\* pos until the next yield, the end of the lines, or an exception
RECURSIVE scan(_, _, _, _, _, _)
scan(p, l, ns, lines, pos, args) ==
    IF pos + 2 > Len(lines)
    THEN [pos |-> Len(lines), outcome |-> "StopIteration", records |-> <<>>]
    ELSE LET index == lines[pos + 1]
             source == lines[pos + 2]
             record == normalized_record(p, l, index, source)
         IN  IF ~namespace_matches(ns, source)
             THEN scan(p, l, ns, lines, pos + 2, args)
             ELSE IF filters_raise(record, args)
             THEN [pos |-> pos + 2, outcome |-> "TypeError", records |-> <<>>]
             ELSE IF filters_pass(record, args)
             THEN [pos |-> pos + 2, outcome |-> "yield", records |-> <<record>>]
             ELSE scan(p, l, ns, lines, pos + 2, args)

\* lines 303-310: every record _filtered_iter(filters) yields when it is run
\* from read position pos until it ends
RECURSIVE drain(_, _)
drain(pos, args) ==
    LET r == scan(project, lang, namespace, dump, pos, args)
    IN  IF r.outcome = "yield" THEN r.records \o drain(r.pos, args) ELSE <<>>

\* as yield_item, with record["text"] read instead of popped: meta keeps the text
yield_item_text_kept(kind, record) ==
    CASE kind = "texts" -> record.text
      [] kind = "records" -> [text |-> record.text, meta |-> record]
      [] OTHER -> record

\* lines 343 and 377, and the record itself for a plain iteration
yield_item(kind, record) ==
    CASE kind = "texts" -> record.text
      [] kind = "records" ->
            [text |-> record.text,
             meta |-> [f \in DOMAIN record \ {"text"} |-> record[f]]]
      [] OTHER -> record

\* itertools.islice(it, limit) is exhausted: it asks its source for nothing more
islice_done(args, count) == args.limit.given /\ count >= args.limit.int

\* as cursor, with one reader shared by all the generators of the dataset
cursor_shared(g) ==
    CHOOSE p \in {gens[h].pos : h \in DOMAIN gens} :
        \A h \in DOMAIN gens : gens[h].pos <= p

\* the read position of generator g: each __iter__ frame owns its reader (line 238)
cursor(g) == gens[g].pos

IdleGen == [status |-> "idle", args |-> IterCall, pos |-> 0,
            yielded |-> <<>>, exc |-> ""]

finish(gen, pos) == [gen EXCEPT !.status = "finished", !.pos = pos]
raise(gen, pos, exc) == [gen EXCEPT !.status = "raised", !.pos = pos, !.exc = exc]

\* as advance, with the dump file looked for when the query is called for
\* rather than when its first record is asked for
advance_file_check_first(gen, pos) ==
    LET args == gen.args
        r == scan(project, lang, namespace, dump, pos, args)
    IN  IF gen.status = "created" /\ ~fileExists
        THEN raise(gen, pos, "OSError")
        ELSE IF gen.status = "created" /\ args.kind # "iter" /\ min_len_invalid(args)
        THEN raise(gen, pos, "ValueError")
        ELSE IF args.kind # "iter" /\ islice_done(args, Len(gen.yielded))
        THEN finish(gen, pos)
        ELSE IF r.outcome = "yield"
        THEN [gen EXCEPT !.status = "suspended", !.pos = r.pos,
                         !.yielded = Append(@, yield_item(args.kind, r.records[1]))]
        ELSE IF r.outcome = "TypeError"
        THEN raise(gen, r.pos, "TypeError")
        ELSE finish(gen, r.pos)

\* the state of generator object gen after one next() on it
advance(gen, pos) ==
    LET args == gen.args
        r == scan(project, lang, namespace, dump, pos, args)
    IN  IF gen.status = "created" /\ args.kind # "iter" /\ min_len_invalid(args)
        THEN raise(gen, pos, "ValueError")
        ELSE IF args.kind # "iter" /\ islice_done(args, Len(gen.yielded))
        THEN finish(gen, pos)
        ELSE IF gen.status = "created" /\ ~fileExists
        THEN raise(gen, pos, "OSError")
        ELSE IF r.outcome = "yield"
        THEN [gen EXCEPT !.status = "suspended", !.pos = r.pos,
                         !.yielded = Append(@, yield_item(args.kind, r.records[1]))]
        ELSE IF r.outcome = "TypeError"
        THEN raise(gen, r.pos, "TypeError")
        ELSE finish(gen, r.pos)

(* ---------------- actions ---------------- *)

\* ds.download(): afterwards the dump file exists
Download ==
    /\ fileExists' = TRUE
    /\ UNCHANGED <<project, lang, namespace, dump, gens>>

\* iter(ds), ds.texts(...) or ds.records(...) creates generator object g; none
\* of its code runs before the first next()
Call(g, args) ==
    /\ gens[g].status = "idle"
    /\ gens' = [gens EXCEPT ![g] = [IdleGen EXCEPT !.status = "created", !.args = args]]
    /\ UNCHANGED <<project, lang, namespace, fileExists, dump>>

\* next() on generator g
NextItem(g) ==
    /\ gens[g].status \in {"created", "suspended"}
    /\ gens' = [gens EXCEPT ![g] = advance(gens[g], cursor(g))]
    /\ UNCHANGED <<project, lang, namespace, fileExists, dump>>

(* ---------------- bounds and sample data ---------------- *)

\* longest dump, in lines
MaxLines == 5
\* largest limit argument
MaxLimit == 2
\* largest min_len argument (the smallest is MinMinLen)
MaxMinLen == 2
MinMinLen == 0 - 1
\* simultaneously live generators in SpecConc
MaxGens == 2
\* longest dump of SpecConc, in lines
MaxConcLines == 4
\* longest source text in SpecExtract
MaxTextLen == 4
\* longest category and outgoing_link array in SpecExtract
MaxListLen == 2

s_Felines == <<"F", "e", "l", "i", "n", "e", "s">>
s_Cats == <<"C", "a", "t", "s">>
s_Animal == <<"A", "n", "i", "m", "a", "l">>
s_Plant == <<"P", "l", "a", "n", "t">>
s_Sandbox == <<"S", "a", "n", "d", "b", "o", "x">>
s_Title == <<"T">>

Digits == <<"0", "1", "2", "3", "4", "5", "6", "7", "8", "9">>

\* the bulk-insert header of pair k (k = 0, 1, ...): {"index": {"_id": "7k"}}
IndexLine(k) == [index |-> [_id |-> <<"7", Digits[k + 1]>>]]

\* the dumps of n lines whose source documents are taken from Docs
DumpsOfLen(Docs, n) ==
    {[i \in 1..n |-> IF i % 2 = 1 THEN IndexLine((i - 1) \div 2) ELSE f[i \div 2]] :
        f \in [1..(n \div 2) -> Docs]}

Dumps(Docs, maxLines) == UNION {DumpsOfLen(Docs, n) : n \in 0..maxLines}

\* source documents of an English Wikipedia dump
MainDocs ==
    {[namespace |-> 0, title |-> s_Title, text |-> <<"a", "b">>,
      category |-> <<s_Felines>>, outgoing_link |-> <<s_Animal>>],
     [namespace |-> 0, title |-> s_Title, category |-> <<s_Felines>>],
     [namespace |-> 1, title |-> s_Title, text |-> <<"a", "b", "c">>,
      category |-> <<s_Felines>>, outgoing_link |-> <<s_Animal>>],
     [namespace |-> 0, title |-> s_Title, text |-> <<"a">>,
      category |-> <<s_All_stub_articles>>,
      outgoing_link |-> <<s_Wikipedia_c \o s_Sandbox, s_Plant>>],
     [namespace |-> 0, title |-> s_Title, opening_text |-> <<"a">>,
      text |-> <<"a", " ", "b">>, category |-> <<s_Cats, s_Animal>>,
      outgoing_link |-> <<>>, create_timestamp |-> <<"2", "0", "2", "0">>,
      incoming_links |-> <<"3">>, heading |-> <<s_Animal>>,
      external_link |-> <<<<"h", "%", "3", "A", "%", "2", "F", "a", "+", "b", "%", "4">>>>],
     [title |-> s_Title, text |-> <<"a", "b">>, category |-> <<s_Cats>>,
      outgoing_link |-> <<s_Plant>>]}

CategoryArgs == {NoArg, StrArg(s_Felines), SetArg({s_Felines, s_Cats})}
WikiLinkArgs == {NoArg, SetArg({s_Animal, s_Plant})}
MinLenArgs == {NoArg} \cup {IntArg(n) : n \in MinMinLen..MaxMinLen}
LimitArgs == {NoArg} \cup {IntArg(n) : n \in 0..MaxLimit}

\* the calls of the single-generator specification
QueryArgs ==
    {IterCall} \cup
    [kind : {"texts", "records"}, category : CategoryArgs, wiki_link : WikiLinkArgs,
     min_len : MinLenArgs, limit : LimitArgs]

\* the calls of the specification of simultaneous generators
ConcArgs ==
    {IterCall,
     [IterCall EXCEPT !.kind = "texts", !.limit = IntArg(1)],
     [IterCall EXCEPT !.kind = "records", !.category = StrArg(s_Felines)]}

ConcDocs ==
    {[namespace |-> 0, title |-> s_Title, text |-> <<"a", "b">>,
      category |-> <<s_Felines>>, outgoing_link |-> <<s_Animal>>],
     [namespace |-> 0, title |-> s_Title, text |-> <<"a">>,
      category |-> <<s_Cats>>, outgoing_link |-> <<s_Plant>>],
     [namespace |-> 1, title |-> s_Title, text |-> <<"a", "b", "c">>,
      category |-> <<s_Felines>>]}

\* the strings of at most n characters over alphabet
StringsUpTo(alphabet, n) == UNION {[1..m -> alphabet] : m \in 0..n}

TextAlphabet == {"a", "b", " "}

\* source documents that differ in opening_text and text
TextDocs ==
    LET base == [namespace |-> 0, title |-> s_Title, category |-> <<s_Felines>>]
        texts == StringsUpTo(TextAlphabet, MaxTextLen)
        openings == StringsUpTo(TextAlphabet, MaxTextLen - 2)
    IN  {base} \cup {base @@ [text |-> t] : t \in texts}
               \cup {base @@ [opening_text |-> o] : o \in openings}
               \cup {base @@ [opening_text |-> o, text |-> t] :
                         o \in openings, t \in texts}

CategoryPool ==
    {s_Felines, s_All_stub_articles, s_Disambiguation_pages \o <<" ">> \o s_Cats,
     s_Wikipedia_ \o s_article \o <<"s">>, s_Wikipedia_c \o s_Cats,
     s_Published, s_Article_archive, s_Publicado}

WikiLinkPool ==
    {s_Animal, s_Wikipedia_c \o s_Sandbox, s_Help_c \o s_Cats, s_Hilfe_c,
     s_Wikinews_c \o s_Sandbox, s_Bikinea \o s_Cats, <<"H", "e", "l", "p">>}

\* source documents that differ in their category or outgoing_link array
ListDocs ==
    LET base == [namespace |-> 0, title |-> s_Title, text |-> <<"a">>]
    IN  {base} \cup {base @@ [category |-> c] :
                         c \in StringsUpTo(CategoryPool, MaxListLen)}
               \cup {base @@ [outgoing_link |-> wl] :
                         wl \in StringsUpTo(WikiLinkPool, MaxListLen)}

\* the (project, lang) pairs of the rule tables, and two that have no rules
Datasets ==
    ({"wiki", "wikinews"} \X {"de", "el", "en", "es", "fr", "it", "nl", "pt"})
        \cup {<<"wiki", "xx">>, <<"wikibooks", "en">>}

(* ---------------- specification ---------------- *)

Init ==
    /\ project = "wiki"
    /\ lang = "en"
    /\ namespace = 0
    /\ fileExists \in BOOLEAN
    /\ dump \in Dumps(MainDocs, MaxLines)
    /\ gens = [g \in 1..1 |-> IdleGen]

Next ==
    \/ Download
    \/ \E g \in DOMAIN gens : \E args \in QueryArgs : Call(g, args)
    \/ \E g \in DOMAIN gens : NextItem(g)

Spec == Init /\ [][Next]_vars

\* several generator objects of one English Wikipedia dataset, alive together
InitConc ==
    /\ project = "wiki"
    /\ lang = "en"
    /\ namespace = 0
    /\ fileExists \in BOOLEAN
    /\ dump \in Dumps(ConcDocs, MaxConcLines)
    /\ gens = [g \in 1..MaxGens |-> IdleGen]

NextConc ==
    \/ Download
    \/ \E g \in DOMAIN gens : \E args \in ConcArgs : Call(g, args)
    \/ \E g \in DOMAIN gens : NextItem(g)

SpecConc == InitConc /\ [][NextConc]_vars

\* one page of any dataset, iterated: the inputs of the record extraction
InitExtract ==
    /\ \E d \in Datasets : project = d[1] /\ lang = d[2]
    /\ namespace = 0
    /\ fileExists \in BOOLEAN
    /\ dump \in DumpsOfLen(IF <<project, lang>> = <<"wiki", "en">>
                            THEN TextDocs \cup ListDocs
                            ELSE ListDocs, 2)
    /\ gens = [g \in 1..1 |-> IdleGen]

NextExtract ==
    \/ Download
    \/ \E g \in DOMAIN gens : Call(g, IterCall)
    \/ \E g \in DOMAIN gens : NextItem(g)

SpecExtract == InitExtract /\ [][NextExtract]_vars

\* the calls of the specification of a texts() and a records() query
PairArgs ==
    [kind : {"texts", "records"}, category : {NoArg, StrArg(s_Felines)},
     wiki_link : WikiLinkArgs, min_len : MinLenArgs, limit : LimitArgs]

\* source documents of the dumps both queries read
PairDocs ==
    {[namespace |-> 0, title |-> s_Title, text |-> <<"a", "b">>,
      category |-> <<s_Felines>>, outgoing_link |-> <<s_Animal>>],
     [namespace |-> 0, title |-> s_Title, category |-> <<s_Felines>>],
     [namespace |-> 1, title |-> s_Title, text |-> <<"a", "b", "c">>,
      category |-> <<s_Felines>>, outgoing_link |-> <<s_Animal>>],
     [namespace |-> 0, title |-> s_Title, opening_text |-> <<"a">>,
      text |-> <<"a", " ", "b">>, category |-> <<s_Cats, s_Felines>>,
      outgoing_link |-> <<s_Wikipedia_c \o s_Sandbox, s_Plant>>,
      create_timestamp |-> <<"2", "0", "2", "0">>, incoming_links |-> <<"3">>,
      popularity_score |-> <<"1">>, heading |-> <<s_Animal>>,
      external_link |-> <<<<"h", "%", "3", "A", "a", "+", "b">>>>]}

\* the filter and limit arguments of a call
QueryOf(args) == <<args.category, args.wiki_link, args.min_len, args.limit>>

\* generator g is called as the counterpart of the other generator: the same
\* arguments, texts() for records() and records() for texts()
Counterpart(g, args) ==
    \A h \in DOMAIN gens \ {g} :
        gens[h].status # "idle" =>
            QueryOf(gens[h].args) = QueryOf(args) /\ gens[h].args.kind # args.kind

\* two generator objects of one English Wikipedia dataset
InitPair ==
    /\ project = "wiki"
    /\ lang = "en"
    /\ namespace = 0
    /\ fileExists \in BOOLEAN
    /\ dump \in Dumps(PairDocs, MaxConcLines)
    /\ gens = [g \in {1, 2} |-> IdleGen]

NextPair ==
    \/ Download
    \/ \E g \in DOMAIN gens : \E args \in PairArgs :
           Counterpart(g, args) /\ Call(g, args)
    \/ \E g \in DOMAIN gens : NextItem(g)

SpecPair == InitPair /\ [][NextPair]_vars

(* ---------------- what the properties speak about ---------------- *)

\* the dump as line pairs: pair k (k = 0, 1, ...) is lines 2k and 2k+1
NumPairs == Len(dump) \div 2
IndexOf(k) == dump[2 * k + 1]
SourceOf(k) == dump[2 * k + 2]
PairNumbers == [i \in 1..NumPairs |-> i - 1]

\* pair k is a page of the dataset's namespace
InNamespace(k) ==
    "namespace" \in DOMAIN SourceOf(k) /\ SourceOf(k).namespace = namespace

\* the pairs a full iteration of the dataset is to yield, in file order
IterPairs == SelectSeq(PairNumbers, InNamespace)

Started(gen) == gen.status \notin {"idle", "created"}
Ended(gen) == gen.status \in {"finished", "raised"}
IsQuery(gen) == gen.status # "idle" /\ gen.args.kind \in {"texts", "records"}

(* C5: a texts()/records() query with min_len < 1 fails with ValueError,      *)
(* having yielded no record and read no line of the dump; with min_len >= 1   *)
(* or min_len absent the query never fails with ValueError.                   *)
C5_MinLenValidation ==
    \A g \in DOMAIN gens :
        LET gen == gens[g] IN
        IsQuery(gen) =>
            IF gen.args.min_len.given /\ gen.args.min_len.int < 1
            THEN Started(gen) =>
                     /\ gen.status = "raised" /\ gen.exc = "ValueError"
                     /\ gen.yielded = <<>> /\ gen.pos = 0
            ELSE gen.exc # "ValueError"

\* min_len = 0 was rejected although the dump exists and has a matching page
C5_Witness ==
    \E g \in DOMAIN gens :
        /\ IsQuery(gens[g]) /\ gens[g].args.min_len = IntArg(0)
        /\ gens[g].exc = "ValueError"
        /\ fileExists /\ Len(IterPairs) > 0

(* C7: a plain iteration yields, in file order, exactly one record per pair   *)
(* k < floor(L/2) whose source line has the dataset's namespace, with the     *)
(* page_id of the index line of that pair; other pairs and an odd trailing    *)
(* line yield nothing, so at most floor(L/2) records are yielded.             *)
C7_IterationPairsLines ==
    \A g \in DOMAIN gens :
        LET gen == gens[g] IN
        (gen.status # "idle" /\ gen.args.kind = "iter") =>
            /\ Len(gen.yielded) <= Len(IterPairs)
            /\ Len(gen.yielded) <= Len(dump) \div 2
            /\ \A i \in 1..Len(gen.yielded) :
                   /\ gen.yielded[i].page_id = IndexOf(IterPairs[i]).index._id
                   /\ gen.yielded[i].title = SourceOf(IterPairs[i]).title
            /\ gen.status = "finished" => Len(gen.yielded) = Len(IterPairs)
            /\ gen.status = "raised" => gen.exc = "OSError"

\* a finished iteration over an odd number of lines that skipped the first
\* pair and yielded the second
C7_Witness ==
    \E g \in DOMAIN gens :
        /\ gens[g].args.kind = "iter" /\ gens[g].status = "finished"
        /\ Len(dump) % 2 = 1 /\ NumPairs = 2
        /\ ~InNamespace(0) /\ InNamespace(1)
        /\ Len(gens[g].yielded) = 1

(* ---------------- the filters as specified ---------------- *)

\* the record of pair k
RecordOf(k) == normalized_record(project, lang, IndexOf(k), SourceOf(k))

\* the requested values of a category or wiki_link argument
Requested(arg) == IF "str" \in DOMAIN arg THEN {arg.str} ELSE arg.set

HasAny(values, field) == \E v \in values : \E i \in 1..Len(field) : field[i] = v

\* the length of the text of pair k, an absent text counting as length 0
TextLen(k) == IF RecordOf(k).text = None THEN 0 ELSE Len(RecordOf(k).text)

InCategory(k, arg) == InNamespace(k) /\ HasAny(Requested(arg), RecordOf(k).categories)
HasWikiLink(k, arg) == InNamespace(k) /\ HasAny(Requested(arg), RecordOf(k).wiki_links)
LongEnough(k, arg) == InNamespace(k) /\ TextLen(k) >= arg.int

\* pair k passes all the filters of args
Matches(k, args) ==
    /\ InNamespace(k)
    /\ args.min_len.given => LongEnough(k, args.min_len)
    /\ args.category.given => InCategory(k, args.category)
    /\ args.wiki_link.given => HasWikiLink(k, args.wiki_link)

MatchingPairs(args) == SelectSeq(PairNumbers, LAMBDA k : Matches(k, args))

\* what a query of this kind yields for the pairs ks
ItemsOf(kind, ks) == [i \in 1..Len(ks) |-> yield_item(kind, RecordOf(ks[i]))]

Min(a, b) == IF a <= b THEN a ELSE b

\* the number of records the query is to yield in all
Due(args) ==
    IF args.limit.given
    THEN Min(args.limit.int, Len(MatchingPairs(args)))
    ELSE Len(MatchingPairs(args))

\* the query was given usable arguments and found its dump file
Ran(gen) == IsQuery(gen) /\ gen.exc \notin {"ValueError", "OSError"}

(* C1: texts(limit=N) and records(limit=N) yield exactly min(N, totalMatching) *)
(* records (all matching records when limit is None), and with N <=           *)
(* totalMatching the read cursor is never past the line pair of the last      *)
(* yielded record (no line is read for N = 0).                                *)
C1_LimitExactAndLazy ==
    \A g \in DOMAIN gens :
        LET gen == gens[g]
            args == gen.args
            n == Len(gen.yielded)
        IN  Ran(gen) =>
                /\ n <= Due(args)
                /\ Ended(gen) => n = Due(args)
                /\ (args.limit.given /\ args.limit.int <= Len(MatchingPairs(args))) =>
                       gen.pos = IF n = 0 THEN 0 ELSE 2 * MatchingPairs(args)[n] + 2

(* C4: with min_len = m >= 1 a record passes iff its text has at least m      *)
(* characters, an absent text counting as length 0: such a record is dropped  *)
(* without an error and the iteration goes on with the records after it.      *)
C4_AbsentTextCountsAsZero ==
    \A g \in DOMAIN gens :
        LET gen == gens[g]
            args == gen.args
        IN  (Ran(gen) /\ args.min_len.given /\ args.min_len.int >= 1) =>
                /\ gen.status # "raised"
                /\ (gen.status = "finished" /\ ~args.limit.given) =>
                       gen.yielded = ItemsOf(args.kind, MatchingPairs(args))

(* C2: with no limit, the sequence yielded with category=C and wiki_link=W is *)
(* the in-order intersection of the sequences yielded with category=C alone   *)
(* and with wiki_link=W alone: exactly the records that have at least one     *)
(* value of C among their categories and at least one of W among their links. *)
C2_FiltersIntersect ==
    \A g \in DOMAIN gens :
        LET gen == gens[g]
            args == gen.args
            aloneC == drain(0, [args EXCEPT !.wiki_link = NoArg])
            aloneW == drain(0, [args EXCEPT !.category = NoArg])
            both == SelectSeq(aloneC, LAMBDA r : \E j \in 1..Len(aloneW) : aloneW[j] = r)
        IN  (/\ IsQuery(gen) /\ gen.status = "finished"
             /\ args.category.given /\ args.wiki_link.given
             /\ ~args.min_len.given /\ ~args.limit.given) =>
                /\ gen.yielded = [i \in 1..Len(both) |-> yield_item(args.kind, both[i])]
                /\ gen.yielded =
                       ItemsOf(args.kind,
                               SelectSeq(PairNumbers,
                                         LAMBDA k : /\ InCategory(k, args.category)
                                                    /\ HasWikiLink(k, args.wiki_link)))

\* both filters given; a page with a requested category and a requested link
\* was yielded, and a page with only the requested category was not
C2_Witness ==
    \E g \in DOMAIN gens :
        LET args == gens[g].args IN
        /\ IsQuery(gens[g]) /\ gens[g].status = "finished"
        /\ args.category.given /\ args.wiki_link.given
        /\ ~args.min_len.given /\ ~args.limit.given
        /\ Len(gens[g].yielded) = 1
        /\ \E k \in 0..(NumPairs - 1) :
               InCategory(k, args.category) /\ ~HasWikiLink(k, args.wiki_link)

(* C3: every record yielded with category=X has a non-empty cleaned           *)
(* categories field that holds a requested value (X itself when X is a single *)
(* string); with no limit and no other filter, no record whose cleaned        *)
(* categories hold a requested value is left out.                             *)
C3_CategoryFilter ==
    \A g \in DOMAIN gens :
        LET gen == gens[g]
            args == gen.args
            wanted == SelectSeq(PairNumbers, LAMBDA k : InCategory(k, args.category))
        IN  (IsQuery(gen) /\ args.category.given) =>
                /\ args.kind = "records" =>
                       \A i \in 1..Len(gen.yielded) :
                           LET cats == gen.yielded[i].meta.categories IN
                           /\ cats # <<>>
                           /\ HasAny(Requested(args.category), cats)
                           /\ "str" \in DOMAIN args.category =>
                                  HasAny({args.category.str}, cats)
                /\ (~args.limit.given /\ ~args.min_len.given /\ ~args.wiki_link.given) =>
                       /\ Len(gen.yielded) <= Len(wanted)
                       /\ gen.yielded = ItemsOf(args.kind, SubSeq(wanted, 1, Len(gen.yielded)))
                       /\ gen.status = "finished" => Len(gen.yielded) = Len(wanted)

\* records(category="Felines") ended having yielded one page and left out a
\* page of the namespace that is not in the category
C3_Witness ==
    \E g \in DOMAIN gens :
        LET args == gens[g].args IN
        /\ gens[g].status = "finished" /\ args.kind = "records"
        /\ args.category = StrArg(s_Felines)
        /\ ~args.limit.given /\ ~args.min_len.given /\ ~args.wiki_link.given
        /\ Len(gens[g].yielded) = 1
        /\ \E k \in 0..(NumPairs - 1) : InNamespace(k) /\ ~InCategory(k, args.category)

(* C8 as stated: a query run while the dump file does not exist fails with    *)
(* OSError, before any line is read and before any record is yielded.         *)
C8_MissingFileAlwaysOSError ==
    \A g \in DOMAIN gens :
        LET gen == gens[g] IN
        (~fileExists /\ Started(gen)) =>
            /\ gen.status = "raised" /\ gen.exc = "OSError"
            /\ gen.pos = 0 /\ gen.yielded = <<>>

(* C8 as amended: a query run while the dump file does not exist reads no     *)
(* line and yields no record; it fails with OSError at its first next(),      *)
(* unless min_len < 1 (it fails with ValueError) or limit = 0 (it ends        *)
(* without an error, the file never being looked for).                        *)
C8_MissingFile ==
    \A g \in DOMAIN gens :
        LET gen == gens[g]
            args == gen.args
        IN  (~fileExists /\ Started(gen)) =>
                /\ gen.pos = 0 /\ gen.yielded = <<>>
                /\ IF args.min_len.given /\ args.min_len.int < 1
                   THEN gen.status = "raised" /\ gen.exc = "ValueError"
                   ELSE IF args.limit.given /\ args.limit.int = 0
                   THEN gen.status = "finished" /\ gen.exc = ""
                   ELSE gen.status = "raised" /\ gen.exc = "OSError"

\* texts()/records() with usable arguments failed with OSError on a missing
\* dump file whose contents would have matched
C8_Witness ==
    \E g \in DOMAIN gens :
        /\ ~fileExists /\ IsQuery(gens[g])
        /\ gens[g].status = "raised" /\ gens[g].exc = "OSError"
        /\ gens[g].args.min_len = IntArg(1)
        /\ Len(MatchingPairs(gens[g].args)) > 0

(* ---------------- record extraction as specified ---------------- *)

\* a plain iteration and its i-th yielded record come from this source line
IsIteration(gen) == gen.status # "idle" /\ gen.args.kind = "iter"
SourceOfYield(i) == SourceOf(IterPairs[i])

Present(source, field) == field \in DOMAIN source

\* whole = prefix + rest
SplitsAs(whole, prefix, rest) ==
    /\ Len(whole) = Len(prefix) + Len(rest)
    /\ \A i \in 1..Len(prefix) : whole[i] = prefix[i]
    /\ \A i \in 1..Len(rest) : whole[Len(prefix) + i] = rest[i]

IsPrefix(prefix, whole) ==
    Len(prefix) <= Len(whole) /\ \A i \in 1..Len(prefix) : whole[i] = prefix[i]

\* t is s without its leading and trailing whitespace
IsTrimOf(t, s) ==
    \E a, b \in 0..Len(s) :
        /\ a + b <= Len(s)
        /\ t = SubSeq(s, a + 1, Len(s) - b)
        /\ \A i \in 1..a : s[i] \in Whitespace
        /\ \A i \in (Len(s) - b + 1)..Len(s) : s[i] \in Whitespace
        /\ t # <<>> => (t[1] \notin Whitespace /\ t[Len(t)] \notin Whitespace)

\* text is opening, a blank line, and the trimmed remainder of body
IsRejoined(text, opening, body) ==
    \E t \in {SubSeq(body, i, j) : i \in 1..(Len(body) + 1), j \in 0..Len(body)} :
        /\ IsTrimOf(t, SubSeq(body, Len(opening) + 1, Len(body)))
        /\ SplitsAs(text, opening \o <<"\n", "\n">>, t)
        /\ Len(text) >= Len(opening)

Verbatim(text, source) ==
    text = IF Present(source, "text") THEN source.text ELSE None

(* C6 as stated: when opening_text and text are both present and text starts  *)
(* with opening_text, the yielded text is opening_text, a blank line and the  *)
(* stripped remainder, never shorter than opening_text; in every other case   *)
(* it is the source text verbatim (None when text is absent).                 *)
C6_RejoinedWheneverPrefix ==
    \A g \in DOMAIN gens :
        IsIteration(gens[g]) =>
            \A i \in 1..Len(gens[g].yielded) :
                LET src == SourceOfYield(i)
                    text == gens[g].yielded[i].text
                IN  IF /\ Present(src, "opening_text") /\ Present(src, "text")
                       /\ IsPrefix(src.opening_text, src.text)
                    THEN IsRejoined(text, src.opening_text, src.text)
                    ELSE Verbatim(text, src)

(* C6 as amended: the text is rejoined when opening_text and text are both    *)
(* present and non-empty and text starts with opening_text; in every other    *)
(* case, an empty opening_text included, it is the source text verbatim.      *)
C6_TextReconstruction ==
    \A g \in DOMAIN gens :
        IsIteration(gens[g]) =>
            \A i \in 1..Len(gens[g].yielded) :
                LET src == SourceOfYield(i)
                    text == gens[g].yielded[i].text
                IN  IF /\ Present(src, "opening_text") /\ Present(src, "text")
                       /\ src.opening_text # <<>> /\ src.text # <<>>
                       /\ IsPrefix(src.opening_text, src.text)
                    THEN IsRejoined(text, src.opening_text, src.text)
                    ELSE Verbatim(text, src)

\* a text was rejoined and whitespace of the remainder was stripped on both sides
C6_Witness ==
    \E g \in DOMAIN gens :
        /\ IsIteration(gens[g]) /\ Len(gens[g].yielded) = 1
        /\ Present(SourceOfYield(1), "opening_text")
        /\ SourceOfYield(1).opening_text = <<"a">>
        /\ Present(SourceOfYield(1), "text")
        /\ SourceOfYield(1).text = <<"a", " ", "b">> \o <<" ">>
        /\ gens[g].yielded[1].text = <<"a", "\n", "\n", "b">>

\* kept is the order-preserving subsequence of all of the entries not in dropped
RECURSIVE IsKeptOf(_, _, _)
IsKeptOf(kept, all, dropped) ==
    IF all = <<>> THEN kept = <<>>
    ELSE IF Head(all) \in dropped THEN IsKeptOf(kept, Tail(all), dropped)
    ELSE kept # <<>> /\ Head(kept) = Head(all)
             /\ IsKeptOf(Tail(kept), Tail(all), dropped)

Entries(seq) == {seq[i] : i \in 1..Len(seq)}

BadCategory(cat) ==
    <<project, lang>> \in is_bad_category_keys /\ is_bad_category_funcs(project, lang, cat)

BadWikiLink(wl) ==
    \E i \in 1..Len(_bad_wiki_link_starts(project, lang)) :
        IsPrefix(_bad_wiki_link_starts(project, lang)[i], wl)

ArrayOf(source, field) == IF Present(source, field) THEN source[field] ELSE <<>>

(* C9: categories is the order-preserving subsequence of the source category  *)
(* array of the entries the bad-category predicate of (project, lang) rejects *)
(* not, wiki_links that of the outgoing_link entries that start with no bad   *)
(* prefix of (project, lang); with no predicate or no prefixes registered the *)
(* array is passed through unchanged.                                         *)
C9_CleaningRules ==
    \A g \in DOMAIN gens :
        IsIteration(gens[g]) =>
            \A i \in 1..Len(gens[g].yielded) :
                LET src == SourceOfYield(i)
                    rec == gens[g].yielded[i]
                    cats == ArrayOf(src, "category")
                    links == ArrayOf(src, "outgoing_link")
                IN  /\ IsKeptOf(rec.categories, cats,
                                {cat \in Entries(cats) : BadCategory(cat)})
                    /\ IsKeptOf(rec.wiki_links, links,
                                {wl \in Entries(links) : BadWikiLink(wl)})
                    /\ <<project, lang>> \notin is_bad_category_keys =>
                           rec.categories = ArrayOf(src, "category")
                    /\ _bad_wiki_link_starts(project, lang) = <<>> =>
                           rec.wiki_links = ArrayOf(src, "outgoing_link")

\* a record of a dataset with two bad prefixes kept one link of two
C9_Witness ==
    \E g \in DOMAIN gens :
        /\ IsIteration(gens[g]) /\ Len(gens[g].yielded) = 1
        /\ Len(_bad_wiki_link_starts(project, lang)) = 2
        /\ Len(ArrayOf(SourceOfYield(1), "outgoing_link")) = 2
        /\ BadWikiLink(SourceOfYield(1).outgoing_link[1])
        /\ gens[g].yielded[1].wiki_links = <<SourceOfYield(1).outgoing_link[2]>>

(* C10: each generator reads with its own cursor from the first line: under   *)
(* any interleaving of next() calls on generators of one dataset, each has    *)
(* yielded what it yields when run alone, and has read as far as when alone.  *)
C10_IndependentCursors ==
    \A g \in DOMAIN gens :
        LET gen == gens[g]
            args == gen.args
            n == Len(gen.yielded)
            mp == MatchingPairs(args)
            after == IF n = 0 THEN 0 ELSE 2 * mp[n] + 2
        IN  gen.status # "idle" =>
                /\ gen.exc \in {"", "OSError"}
                /\ gen.exc = "OSError" => n = 0 /\ gen.pos = 0
                /\ n <= Due(args)
                /\ gen.yielded = ItemsOf(args.kind, SubSeq(mp, 1, n))
                /\ gen.status \in {"created", "suspended"} => gen.pos = after
                /\ gen.status = "finished" =>
                       /\ n = Due(args)
                       /\ gen.pos = IF args.limit.given /\ n = args.limit.int
                                    THEN after ELSE Len(dump)

\* one generator was run to the end of the dump, another one, started after
\* it, has yielded the first record and stands behind it
C10_Witness ==
    \E g, h \in DOMAIN gens :
        /\ gens[g].status = "finished" /\ gens[g].pos = Len(dump)
        /\ Len(gens[g].yielded) = 2
        /\ gens[h].status = "suspended" /\ gens[h].pos = 2
        /\ Len(gens[h].yielded) = 1

(* ---------------- texts() and records() side by side ---------------- *)

\* the keys of a normalized record other than "text"
MetaFields ==
    {"page_id", "title", "headings", "wiki_links", "ext_links", "categories",
     "dt_created", "n_incoming_links", "popularity_score"}

\* item is the (text, meta) pair of the record of pair k
IsPairOf(item, k) ==
    /\ item.text = RecordOf(k).text
    /\ DOMAIN item.meta = MetaFields
    /\ \A f \in MetaFields : item.meta[f] = RecordOf(k)[f]

\* t is a texts() generator and r a records() generator of the same call
\* arguments, and both found the dump file
SameQuery(t, r) ==
    /\ IsQuery(gens[t]) /\ gens[t].args.kind = "texts"
    /\ IsQuery(gens[r]) /\ gens[r].args.kind = "records"
    /\ QueryOf(gens[t].args) = QueryOf(gens[r].args)
    /\ gens[t].exc # "OSError" /\ gens[r].exc # "OSError"

(* C11: for the same dump and arguments records() yields one (text, meta)     *)
(* pair per text that texts() yields, in the same order and with the same     *)
(* text; meta holds all the other fields of the normalized record and has no  *)
(* "text" key.                                                                *)
C11_RecordsMatchTexts ==
    /\ \A t, r \in DOMAIN gens :
           SameQuery(t, r) =>
               LET m == Len(gens[t].yielded)
                   n == Len(gens[r].yielded)
               IN  /\ \A i \in 1..Min(m, n) :
                          gens[r].yielded[i].text = gens[t].yielded[i]
                   /\ Ended(gens[t]) => n <= m
                   /\ Ended(gens[r]) => m <= n
                   /\ (Ended(gens[t]) /\ Ended(gens[r])) => gens[t].exc = gens[r].exc
    /\ \A r \in DOMAIN gens :
           (IsQuery(gens[r]) /\ gens[r].args.kind = "records") =>
               \A i \in 1..Len(gens[r].yielded) :
                   LET item == gens[r].yielded[i] IN
                   /\ "text" \notin DOMAIN item.meta
                   /\ DOMAIN item.meta = MetaFields
                   /\ \E k \in 0..(NumPairs - 1) : InNamespace(k) /\ IsPairOf(item, k)

\* a filtered texts() and its records() counterpart both ended without an
\* error, each having yielded the same two different texts
C11_Witness ==
    \E t, r \in DOMAIN gens :
        /\ SameQuery(t, r)
        /\ gens[t].status = "finished" /\ gens[r].status = "finished"
        /\ gens[t].args.min_len.given
        /\ Len(gens[t].yielded) = 2 /\ Len(gens[r].yielded) = 2
        /\ gens[t].yielded[1] # gens[t].yielded[2]
        /\ gens[r].yielded[2].text = gens[t].yielded[2]

====
